---- MODULE Spec2Model ----
(***************************************************************************)
(* ID3v2.3 tag decoding of mp3-tool: the sync-safe integer codec, the tag  *)
(* header, the extended header, frames and the text decoders, as written   *)
(* in src/lib.rs (readers generic over std::io::Read) and src/ID3.rs       *)
(* (Reader over a buffered file).                                          *)
(*                                                                         *)
(* A byte is an integer 0..255.  Rust's 0-based index i is TLA+ index i+1. *)
(***************************************************************************)
EXTENDS Integers, Sequences, FiniteSets, TLC

VARIABLES
    src,    \* the bytes the byte source holds (or the slice a function is given)
    pos,    \* how many bytes of src the reader has consumed
    last,   \* the last call and what it returned
    tag     \* the tag header the caller parsed last: its end and declared size

vars == <<src, pos, last, tag>>

----------------------------------------------------------------------------
(* Machine arithmetic                                                      *)

Pow2(n) == 2 ^ n

RECURSIVE BitAnd(_, _)
BitAnd(a, b) ==
    IF a = 0 \/ b = 0 THEN 0
    ELSE (a % 2) * (b % 2) + 2 * BitAnd(a \div 2, b \div 2)

RECURSIVE BitOr(_, _)
BitOr(a, b) ==
    IF a = 0 THEN b
    ELSE IF b = 0 THEN a
    ELSE (IF a % 2 = 1 \/ b % 2 = 1 THEN 1 ELSE 0) + 2 * BitOr(a \div 2, b \div 2)

\* x << n on a u32: the n high bits are shifted out, the rest move up.
\* (TLC's integers are 32-bit signed; the inputs below keep results under 2^31.)
Shl32(x, n) == IF n = 0 THEN x ELSE (x % Pow2(32 - n)) * Pow2(n)
\* x << n on a u16
Shl16(x, n) == (x * Pow2(n)) % 65536
\* (b as u64) << n of a byte b with n <= 24: nothing is shifted out of a u64
Shl64(x, n) == x * Pow2(n)
Shr(x, n) == x \div Pow2(n)
\* `as u8` of an unsigned integer
AsU8(x) == x % 256

SeqsUpTo(S, n) == UNION {[1..k -> S] : k \in 0..n}
Take(s, n) == SubSeq(s, 1, IF n < Len(s) THEN n ELSE Len(s))
Drop(s, n) == SubSeq(s, n + 1, Len(s))

NoCall == [op |-> "none", status |-> "none"]
NoTag == [parsed |-> FALSE, end |-> 0, size |-> 0]

----------------------------------------------------------------------------
(* SyncSafe (src/lib.rs)                                                   *)

bit_mask == 127

RECURSIVE SyncSafe_from_loop(_, _, _)
SyncSafe_from_loop(value, i, val) ==
    IF i = 4 THEN val
    ELSE SyncSafe_from_loop(value, i + 1,
            BitOr(val, Shl32(BitAnd(value[i + 1], bit_mask), 7 * (3 - i))))

\* impl From<[u8; 4]> for SyncSafe
SyncSafe_from(value) == SyncSafe_from_loop(value, 0, 0)

\* a faulty variant: it reports the expected length, not the actual one
SyncSafe_try_from_vec_expected(value) ==
    IF Len(value) # 4
    THEN [status |-> "IncorrectLength", val |-> 4]
    ELSE [status |-> "Ok",
          val |-> SyncSafe_from(<<value[1], value[2], value[3], value[4]>>)]

\* impl TryFrom<Vec<u8>> for SyncSafe
SyncSafe_try_from_vec(value) ==
    IF Len(value) # 4
    THEN [status |-> "IncorrectLength", val |-> Len(value)]
    ELSE [status |-> "Ok",
          val |-> SyncSafe_from(<<value[1], value[2], value[3], value[4]>>)]

\* impl TryFrom<&[u8]> for SyncSafe
SyncSafe_try_from_slice(value) ==
    IF Len(value) # 4
    THEN [status |-> "IncorrectLength", val |-> Len(value)]
    ELSE [status |-> "Ok",
          val |-> SyncSafe_from(<<value[1], value[2], value[3], value[4]>>)]

\* a faulty variant: it forgets the mask, so bit 7 of each extracted byte survives
Vec_from_SyncSafe_unmasked(value) ==
    [i \in 1..4 |-> AsU8(Shr(value, 7 * (3 - (i - 1))))]

\* impl From<SyncSafe> for Vec<u8>
Vec_from_SyncSafe(value) ==
    [i \in 1..4 |-> BitAnd(AsU8(Shr(value, 7 * (3 - (i - 1)))), bit_mask)]

\* Bounds and inputs of the codec's specification
MaxSyncLen == 5
SyncBytes == {0, 110, 128, 238, 255}

SyncInit ==
    /\ src \in SeqsUpTo(SyncBytes, MaxSyncLen)
    /\ pos = 0
    /\ last = NoCall
    /\ tag = NoTag

\* SyncSafe::from(a) on a 4-byte array: the input, or the bytes an encode returned
SyncSafeFrom ==
    /\ \E a \in {src} \cup (IF last.op = "Vec::from" THEN {last.val} ELSE {}) :
          /\ Len(a) = 4
          /\ last' = [op |-> "SyncSafe::from", status |-> "Ok", arg |-> a,
                      val |-> SyncSafe_from(a)]
    /\ UNCHANGED <<src, pos, tag>>

SyncSafeTryFromVec ==
    /\ last' = [op |-> "SyncSafe::try_from(Vec)", arg |-> src]
                  @@ SyncSafe_try_from_vec(src)
    /\ UNCHANGED <<src, pos, tag>>

SyncSafeTryFromSlice ==
    /\ last' = [op |-> "SyncSafe::try_from(slice)", arg |-> src]
                  @@ SyncSafe_try_from_slice(src)
    /\ UNCHANGED <<src, pos, tag>>

\* Vec::<u8>::from(s) of a SyncSafe a decode returned
VecFromSyncSafe ==
    /\ last.op \in {"SyncSafe::from", "SyncSafe::try_from(Vec)",
                    "SyncSafe::try_from(slice)"}
    /\ last.status = "Ok"
    /\ last' = [op |-> "Vec::from", status |-> "Ok", arg |-> last.val,
                val |-> Vec_from_SyncSafe(last.val)]
    /\ UNCHANGED <<src, pos, tag>>

SyncNext ==
    \/ SyncSafeFrom
    \/ SyncSafeTryFromVec
    \/ SyncSafeTryFromSlice
    \/ VecFromSyncSafe

SpecSyncSafe == SyncInit /\ [][SyncNext]_vars

\* What the format says the codec computes, in plain arithmetic
Low7(b) == b % 128
Masked(a) == [i \in 1..4 |-> Low7(a[i])]
Int28(a) == Low7(a[1]) * 2097152 + Low7(a[2]) * 16384 + Low7(a[3]) * 128 + Low7(a[4])

\* C7: encoding the sync-safe decode of a 4-byte array a gives a with every byte
\* masked to its low 7 bits, and decoding those bytes again gives the integer a decodes to.
C7_RoundTrip ==
    /\ (last.op = "Vec::from" /\ Len(src) = 4) => last.val = Masked(src)
    /\ (last.op = "SyncSafe::from" /\ last.arg = Masked(src)) => last.val = Int28(src)
    /\ (last.op = "SyncSafe::from" /\ last.arg = src) => last.val = Int28(src)

\* C7 witness: an array with high bits set was decoded, encoded and decoded again
C7_Witness ==
    /\ Len(src) = 4
    /\ src[1] >= 128 /\ src[3] >= 128
    /\ last.op = "SyncSafe::from"
    /\ last.arg = Masked(src)
    /\ last.arg # src
    /\ last.val = Int28(src)

\* C8: length-checked construction from a vector or a slice fails with
\* IncorrectLength(len) when the length is not 4, and otherwise gives the value of
\* the unchecked 4-byte decode.
C8_LengthChecked ==
    last.op \in {"SyncSafe::try_from(Vec)", "SyncSafe::try_from(slice)"} =>
        IF Len(last.arg) # 4
        THEN last.status = "IncorrectLength" /\ last.val = Len(last.arg)
        ELSE last.status = "Ok" /\ last.val = Int28(last.arg)

\* C8 witness: a slice of 3 bytes was refused with its length
C8_Witness ==
    /\ last.op = "SyncSafe::try_from(slice)"
    /\ Len(last.arg) = 3
    /\ last.status = "IncorrectLength"
    /\ last.val = 3

----------------------------------------------------------------------------
(* The byte source                                                         *)

\* a faulty variant: it hands back a zero-filled buffer when the source runs short
read_exact_padded(s, p, n) ==
    IF Len(s) - p >= n
    THEN {[ok |-> TRUE, bytes |-> SubSeq(s, p + 1, p + n), pos |-> p + n]}
    ELSE {[ok |-> TRUE, bytes |-> Drop(s, p) \o [i \in 1..(n - (Len(s) - p)) |-> 0],
           pos |-> Len(s)]}

\* a faulty variant: a successful read takes everything the source has left
\* (a read_to_end cut to n bytes)
read_exact_drained(s, p, n) ==
    IF Len(s) - p >= n
    THEN {[ok |-> TRUE, bytes |-> SubSeq(s, p + 1, p + n), pos |-> Len(s)]}
    ELSE {[ok |-> FALSE, bytes |-> <<>>, pos |-> q] : q \in {p, Len(s)}}

\* reader.read_exact(&mut buf) with a buffer of n bytes, the source at byte p.
\* It fills the buffer and advances by n, or fails when fewer than n bytes are
\* left; how far a failed read has advanced is left open by std::io::Read (a
\* slice of an older toolchain stays put, a newer one or a file is drained).
read_exact(s, p, n) ==
    IF Len(s) - p >= n
    THEN {[ok |-> TRUE, bytes |-> SubSeq(s, p + 1, p + n), pos |-> p + n]}
    ELSE {[ok |-> FALSE, bytes |-> <<>>, pos |-> q] : q \in {p, Len(s)}}

\* Reader::read_n_bytes (src/ID3.rs): vec![0; n], then read_exact into it
read_n_bytes(s, p, n) == read_exact(s, p, n)

----------------------------------------------------------------------------
(* Tag header                                                              *)

\* a faulty variant: it accepts any flags byte
Header_valid_bytes_any_flags(bytes) ==
    /\ SubSeq(bytes, 1, 3) = <<73, 68, 51>>
    /\ \A i \in 4..5 : bytes[i] < 255
    /\ \A i \in 7..10 : bytes[i] < 128

\* Header::valid_bytes (src/lib.rs)
Header_valid_bytes(bytes) ==
    /\ SubSeq(bytes, 1, 3) = <<73, 68, 51>>
    /\ \A i \in 4..5 : bytes[i] < 255
    /\ BitAnd(bytes[6], 31) = 0
    /\ \A i \in 7..10 : bytes[i] < 128

\* Header::read_from (src/lib.rs): the outcomes of one call with the source at p
Header_read_from(s, p) ==
    { IF ~r.ok
      THEN [status |-> "NotEnoughBytes", pos |-> r.pos]
      ELSE IF ~Header_valid_bytes(r.bytes)
      THEN [status |-> "HeaderNotFound", pos |-> r.pos]
      ELSE LET size == SyncSafe_try_from_slice(SubSeq(r.bytes, 7, 10))
           IN  IF size.status # "Ok"
               THEN [status |-> "Panic", pos |-> r.pos]     \* .unwrap()
               ELSE [status |-> "Ok", pos |-> r.pos,
                     val |-> [identifier |-> SubSeq(r.bytes, 1, 3),
                              version |-> SubSeq(r.bytes, 4, 5),
                              flags |-> r.bytes[6],
                              size |-> size.val]]
      : r \in read_exact(s, p, 10) }

\* header_exists (src/ID3.rs)
header_exists(file) ==
    IF Len(file) < 10 THEN FALSE
    ELSE /\ SubSeq(file, 1, 3) = <<73, 68, 51>>
         /\ file[4] = 3
         /\ file[5] = 0
         /\ \A x \in 0..4 : BitAnd(Pow2(x), file[6]) = 0
         /\ \A i \in 7..10 : file[i] < 128

\* Header::size (src/ID3.rs): the sum of the size bytes, each shifted by 7*(3-x)
RECURSIVE ID3_Header_size_sum(_, _)
ID3_Header_size_sum(size, x) ==
    IF x = 4 THEN 0
    ELSE Shl64(size[x + 1], 7 * (3 - x)) + ID3_Header_size_sum(size, x + 1)

ID3_Header_size(h) == ID3_Header_size_sum(h.size, 0)

\* Header::from_bytes (src/ID3.rs)
ID3_Header_from_bytes(bytes) ==
    IF ~header_exists(bytes)
    THEN [status |-> "None"]
    ELSE [status |-> "Ok",
          val |-> [major_ver |-> bytes[4], minor_ver |-> bytes[5],
                   flags |-> bytes[6], size |-> SubSeq(bytes, 7, 10)]]

\* Header::from_reader (src/ID3.rs)
ID3_Header_from_reader(s, p) ==
    { IF ~r.ok
      THEN [status |-> "UnexpectedEof", pos |-> r.pos]
      ELSE IF ~header_exists(r.bytes)
      THEN [status |-> "InvalidData", pos |-> r.pos]
      ELSE [status |-> "Ok", pos |-> r.pos,
            val |-> [major_ver |-> r.bytes[4], minor_ver |-> r.bytes[5],
                     flags |-> r.bytes[6], size |-> SubSeq(r.bytes, 7, 10)]]
      : r \in read_n_bytes(s, p, 10) }

\* A call that panicked ends the thread: nothing is called after it.
Running == last.status # "Panic"

\* Header::read_from(&mut reader)
HeaderReadFrom ==
    /\ Running
    /\ \E r \in Header_read_from(src, pos) :
          /\ pos' = r.pos
          /\ last' = [op |-> "Header::read_from", at |-> pos] @@ r
          /\ tag' = IF r.status = "Ok"
                    THEN [parsed |-> TRUE, end |-> r.pos, size |-> r.val.size]
                    ELSE tag
    /\ UNCHANGED src

\* Header::from_reader(&mut reader) of src/ID3.rs
HeaderFromReader ==
    /\ Running
    /\ \E r \in ID3_Header_from_reader(src, pos) :
          /\ pos' = r.pos
          /\ last' = [op |-> "ID3::Header::from_reader", at |-> pos] @@ r
          /\ tag' = IF r.status = "Ok"
                    THEN [parsed |-> TRUE, end |-> r.pos, size |-> ID3_Header_size(r.val)]
                    ELSE tag
    /\ UNCHANGED src

\* header_exists(&file) on the whole buffer
HeaderExists ==
    /\ Running
    /\ last' = [op |-> "header_exists", at |-> pos, status |-> "Ok", pos |-> pos,
                val |-> header_exists(src)]
    /\ UNCHANGED <<src, pos, tag>>

\* Header::from_bytes(&file) on the whole buffer
HeaderFromBytes ==
    /\ Running
    /\ last' = [op |-> "ID3::Header::from_bytes", at |-> pos, pos |-> pos]
                  @@ ID3_Header_from_bytes(src)
    /\ UNCHANGED <<src, pos, tag>>

\* Inputs of the tag header's specification: 10 bytes with each field drawn from
\* accepted and refused values, cut short or followed by further bytes
MaxExtra == 1
Identifiers == {<<73, 68, 51>>, <<73, 68, 50>>, <<72, 68, 51>>, <<73, 67, 51>>}
MajorBytes == {3, 4, 255}
MinorBytes == {0, 255}
FlagBytes == {0, 224, 1, 16}
SizeBytes == {0, 127, 128}
HeaderInputs ==
    {id \o <<maj, min, fl>> \o sz :
        id \in Identifiers, maj \in MajorBytes, min \in MinorBytes,
        fl \in FlagBytes, sz \in [1..4 -> SizeBytes]}

HeaderInit ==
    /\ src \in {Take(h \o [i \in 1..MaxExtra |-> 255], n) :
                  h \in HeaderInputs, n \in 0..(10 + MaxExtra)}
    /\ pos = 0
    /\ last = NoCall
    /\ tag = NoTag

HeaderNext ==
    \/ HeaderReadFrom
    \/ HeaderFromReader
    \/ HeaderExists
    \/ HeaderFromBytes

SpecHeader == HeaderInit /\ [][HeaderNext]_vars

\* the three conditions the claim names, on the 10 bytes b
IsID3(b) == b[1] = 73 /\ b[2] = 68 /\ b[3] = 51
FlagsLowClear(b) == b[6] % 32 = 0
SizeSyncSafe(b) == b[7] < 128 /\ b[8] < 128 /\ b[9] < 128 /\ b[10] < 128
Claimed(b) == IsID3(b) /\ FlagsLowClear(b) /\ SizeSyncSafe(b)

\* the 10 bytes a call at byte `at` was given
Given(at) == SubSeq(src, at + 1, at + 10)

\* C1 as stated: on 10 bytes b, header parsing (Header::read_from, header_exists)
\* succeeds iff b[0..3] = "ID3", b[5] & 0x1F = 0 and b[6..10] are all < 128, and
\* otherwise fails with HeaderNotFound.
C1_AsStated ==
    /\ (last.op = "Header::read_from" /\ Len(src) - last.at >= 10) =>
          /\ last.status = "Ok" <=> Claimed(Given(last.at))
          /\ last.status # "Ok" => last.status = "HeaderNotFound"
    /\ (last.op = "header_exists" /\ Len(src) >= 10) =>
          (last.val <=> Claimed(Take(src, 10)))

\* C1 amended: on 10 bytes b, Header::read_from succeeds iff b[0..3] = "ID3", b[3]
\* and b[4] are both below 0xFF, b[5] & 0x1F = 0 and b[6..10] are all < 128, and
\* otherwise fails with HeaderNotFound; header_exists holds iff b[0..3] = "ID3",
\* b[3] = 3, b[4] = 0, b[5] & 0x1F = 0 and b[6..10] are all < 128.
C1_Amended ==
    /\ (last.op = "Header::read_from" /\ Len(src) - last.at >= 10) =>
          LET b == Given(last.at)
          IN  /\ last.status = "Ok" <=> (Claimed(b) /\ b[4] < 255 /\ b[5] < 255)
              /\ last.status # "Ok" => last.status = "HeaderNotFound"
    /\ (last.op = "header_exists" /\ Len(src) >= 10) =>
          (last.val <=> (Claimed(Take(src, 10)) /\ src[4] = 3 /\ src[5] = 0))

\* C1 witness: a header the claimed conditions accept was refused for its version byte
C1_Witness ==
    /\ last.op = "Header::read_from"
    /\ Len(src) = 10
    /\ Claimed(src)
    /\ src[4] = 255
    /\ last.status = "HeaderNotFound"

\* C2: with fewer than 10 bytes left in the source, whatever they are,
\* Header::read_from fails with NotEnoughBytes and never with HeaderNotFound.
C2_ShortRead ==
    (last.op = "Header::read_from" /\ Len(src) - last.at < 10) =>
        last.status = "NotEnoughBytes"

\* C2 witness: 9 bytes that start a valid header were refused as too few
C2_Witness ==
    /\ last.op = "Header::read_from"
    /\ Len(src) = 9
    /\ last.at = 0
    /\ IsID3(src)
    /\ last.status = "NotEnoughBytes"

----------------------------------------------------------------------------
(* Extended header                                                         *)

None == [some |-> FALSE]
Some(v) == [some |-> TRUE, val |-> v]

\* (0..4).map(|x| (bytes[off + x] as u64) << 8*(3-x)).sum()
RECURSIVE be_sum(_, _, _)
be_sum(bytes, off, x) ==
    IF x = 4 THEN 0
    ELSE Shl64(bytes[off + x + 1], 8 * (3 - x)) + be_sum(bytes, off, x + 1)

\* u32::from_be_bytes
u32_from_be_bytes(b) == be_sum(b, 0, 0)

\* ExtendedHeader::read_from (src/lib.rs): 10 bytes, and 4 more when header[3] is 10
ExtendedHeader_read_from(s, p) ==
    UNION {
      IF ~r.ok
      THEN {[status |-> "NotEnoughBytes", pos |-> r.pos]}
      ELSE LET header == r.bytes
               fields == [size |-> SubSeq(header, 1, 4),
                          flags |-> SubSeq(header, 5, 6),
                          padding_size |-> SubSeq(header, 7, 10)]
           IN  IF header[4] = 10
               THEN { IF ~c.ok
                      THEN [status |-> "NotEnoughBytes", pos |-> c.pos]
                      ELSE [status |-> "Ok", pos |-> c.pos,
                            val |-> fields @@ [crc |-> Some(c.bytes)]]
                      : c \in read_exact(s, r.pos, 4) }
               ELSE {[status |-> "Ok", pos |-> r.pos,
                      val |-> fields @@ [crc |-> None]]}
      : r \in read_exact(s, p, 10) }

\* ExtendedHeader::size, ::padding_size, ::crc (src/lib.rs)
ExtendedHeader_size(h) == u32_from_be_bytes(h.size)
ExtendedHeader_padding_size(h) == u32_from_be_bytes(h.padding_size)
ExtendedHeader_crc(h) == IF h.crc.some THEN Some(u32_from_be_bytes(h.crc.val)) ELSE None

\* ExtendedHeader::from_reader (src/ID3.rs): 4 size bytes, then `more` bytes as
\* one read; remaining[0..6] is indexed whatever `more` is
ExtendedHeader_from_reader(s, p) ==
    UNION {
      IF ~r.ok
      THEN {[status |-> "UnexpectedEof", pos |-> r.pos]}
      ELSE LET size == r.bytes
               more == be_sum(size, 0, 0)
           IN  { IF ~m.ok
                 THEN [status |-> "UnexpectedEof", pos |-> m.pos]
                 ELSE LET remaining == m.bytes
                      IN  IF Len(remaining) < 6
                          THEN [status |-> "Panic", pos |-> m.pos]   \* index out of bounds
                          ELSE [status |-> "Ok", pos |-> m.pos,
                                val |-> [size |-> size,
                                         flags |-> SubSeq(remaining, 1, 2),
                                         padding_size |-> SubSeq(remaining, 3, 6),
                                         crc |-> IF more = 10
                                                 THEN Some(SubSeq(remaining, 7, 10))
                                                 ELSE None]]
                 : m \in read_n_bytes(s, r.pos, more) }
      : r \in read_n_bytes(s, p, 4) }

\* ExtendedHeader::from_bytes (src/ID3.rs): bytes[4..10] is indexed whenever the
\* slice holds the declared length, whatever that length is
ExtendedHeader_from_bytes(bytes) ==
    IF Len(bytes) < 4 THEN [status |-> "None"]
    ELSE LET length == be_sum(bytes, 0, 0)
         IN  IF Len(bytes) < length + 4 THEN [status |-> "None"]
             ELSE IF Len(bytes) < 10 THEN [status |-> "Panic"]     \* index out of bounds
             ELSE [status |-> "Ok",
                   val |-> [size |-> SubSeq(bytes, 1, 4),
                            flags |-> SubSeq(bytes, 5, 6),
                            padding_size |-> SubSeq(bytes, 7, 10),
                            crc |-> IF length = 10
                                    THEN Some(SubSeq(bytes, 11, 14))
                                    ELSE None]]

\* ExtendedHeader::padding_size, ::size, ::has_padding (src/ID3.rs)
ID3_ExtendedHeader_padding_size(h) == be_sum(h.padding_size, 0, 0)
ID3_ExtendedHeader_size(h) == be_sum(h.size, 0, 0)
ID3_ExtendedHeader_has_padding(h) == Shr(BitAnd(h.flags[1], 128), 7) = 1

\* The calls explored are those whose 4-byte size field, at offset off of the
\* bytes left, has its top bit clear: the declared size then fits TLC's integers.
InRange(off) == Len(src) - pos >= off + 4 => src[pos + off + 1] < 128

\* ExtendedHeader::read_from(&mut reader)
ExtendedHeaderReadFrom ==
    /\ Running
    /\ \E r \in ExtendedHeader_read_from(src, pos) :
          /\ pos' = r.pos
          /\ last' = [op |-> "ExtendedHeader::read_from", at |-> pos] @@ r
    /\ UNCHANGED <<src, tag>>

\* ExtendedHeader::from_reader(&mut reader) of src/ID3.rs
ExtendedHeaderFromReader ==
    /\ Running
    /\ InRange(0)
    /\ \E r \in ExtendedHeader_from_reader(src, pos) :
          /\ pos' = r.pos
          /\ last' = [op |-> "ID3::ExtendedHeader::from_reader", at |-> pos] @@ r
    /\ UNCHANGED <<src, tag>>

\* ExtendedHeader::from_bytes(&bytes) of src/ID3.rs on what the source has left
ExtendedHeaderFromBytes ==
    /\ Running
    /\ InRange(0)
    /\ last' = [op |-> "ID3::ExtendedHeader::from_bytes", at |-> pos, pos |-> pos]
                  @@ ExtendedHeader_from_bytes(Drop(src, pos))
    /\ UNCHANGED <<src, pos, tag>>

\* Inputs of the extended header's specification: a size field whose value is
\* below 6, 6, 10, or another value with the same low byte as one of these, then
\* up to MaxExtBody further bytes, all different, under either padding flag.
\* (The top size byte stays below 128 so that the value fits TLC's integers.)
MaxExtBody == 11
ExtSizeFields ==
    {<<b0, 0, b2, b3>> : b0 \in {0, 1}, b2 \in {0, 1}, b3 \in {0, 2, 5, 6, 7, 10}}
ExtBody(f0) == <<f0>> \o [i \in 1..(MaxExtBody - 1) |-> 16 + i]

ExtInit ==
    /\ src \in {Take(sz \o ExtBody(f0), n) :
                  sz \in ExtSizeFields, f0 \in {0, 128}, n \in 0..(4 + MaxExtBody)}
    /\ pos = 0
    /\ last = NoCall
    /\ tag = NoTag

ExtNext ==
    \/ ExtendedHeaderReadFrom
    \/ ExtendedHeaderFromReader
    \/ ExtendedHeaderFromBytes

SpecExt == ExtInit /\ [][ExtNext]_vars

\* a 4-byte field at byte `at` of the source, read as a big-endian integer
Declared(at) ==
    src[at + 1] * 16777216 + src[at + 2] * 65536 + src[at + 3] * 256 + src[at + 4]

ShortRead(status) == status \in {"NotEnoughBytes", "UnexpectedEof"}
ExtParsers == {"ExtendedHeader::read_from", "ID3::ExtendedHeader::from_reader"}

\* C3: whenever extended header parsing succeeds, crc is Some(_) if and only if
\* the 4-byte size field, read as a 32-bit big-endian integer, equals exactly 10.
C3_CrcIffSizeTen ==
    (last.op \in ExtParsers /\ last.status = "Ok") =>
        (last.val.crc.some <=> Declared(last.at) = 10)

\* C4: a successful extended header parse advances the source by exactly 4 + s
\* bytes, s being the declared size, and the parse fails with NotEnoughBytes
\* exactly when the source holds fewer than 4 + s bytes.
C4_AdvancesBySize ==
    last.op \in ExtParsers =>
        LET avail == Len(src) - last.at
        IN  IF avail < 4
            THEN ShortRead(last.status)
            ELSE /\ last.status = "Ok" => last.pos = last.at + 4 + Declared(last.at)
                 /\ ShortRead(last.status) <=> avail < 4 + Declared(last.at)

----------------------------------------------------------------------------
(* Frames                                                                  *)

\* a faulty variant: it reads the size field little-endian
Frame_body_size_le(header) ==
    header[5] + header[6] * 256 + header[7] * 65536 + header[8] * 16777216

\* Frame::from_reader's body length (src/ID3.rs):
\* (0..4).map(|x| (header[4+x] as u64) << 8*(3-x)).sum()
Frame_body_size(header) == be_sum(header, 4, 0)

\* Frame::from_reader (src/ID3.rs): 10 header bytes, then `size` bytes of data
Frame_from_reader(s, p) ==
    UNION {
      IF ~r.ok
      THEN {[status |-> "UnexpectedEof", pos |-> r.pos]}
      ELSE LET header == r.bytes
               size == Frame_body_size(header)
           IN  { IF ~d.ok
                 THEN [status |-> "UnexpectedEof", pos |-> d.pos]
                 ELSE [status |-> "Ok", pos |-> d.pos,
                       val |-> [id |-> SubSeq(header, 1, 4),
                                size |-> SubSeq(header, 5, 8),
                                flags |-> SubSeq(header, 9, 10),
                                data |-> d.bytes]]
                 : d \in read_n_bytes(s, r.pos, size) }
      : r \in read_n_bytes(s, p, 10) }

\* Frame::size (src/ID3.rs)
Frame_size(f) == be_sum(f.size, 0, 0)

\* FrameHeader::read_from (src/lib.rs)
FrameHeader_read_from(s, p) ==
    { IF ~r.ok
      THEN [status |-> "NotEnoughBytes", pos |-> r.pos]
      ELSE [status |-> "Ok", pos |-> r.pos,
            val |-> [frame_id |-> SubSeq(r.bytes, 1, 4),
                     size |-> SubSeq(r.bytes, 5, 8),
                     flags |-> SubSeq(r.bytes, 9, 10)]]
      : r \in read_exact(s, p, 10) }

\* FrameHeader::size (src/lib.rs)
FrameHeader_size(h) == u32_from_be_bytes(h.size)

\* Frame::from_reader(&mut reader)
FrameFromReader ==
    /\ Running
    /\ InRange(4)
    /\ \E r \in Frame_from_reader(src, pos) :
          /\ pos' = r.pos
          /\ last' = [op |-> "ID3::Frame::from_reader", at |-> pos] @@ r
    /\ UNCHANGED <<src, tag>>

\* FrameHeader::read_from(&mut reader)
FrameHeaderReadFrom ==
    /\ Running
    /\ InRange(4)
    /\ \E r \in FrameHeader_read_from(src, pos) :
          /\ pos' = r.pos
          /\ last' = [op |-> "FrameHeader::read_from", at |-> pos] @@ r
    /\ UNCHANGED <<src, tag>>

----------------------------------------------------------------------------
(* A tag read front to back                                                *)

\* Inputs: a valid tag header declaring TagSizes bytes, with or without the
\* extended-header flag and an extended header of 6 bytes or of 10 bytes with
\* its CRC, then up to MaxFrames
\* frames; the last MaxCut bytes may be missing (a truncated file), and
\* whatever lies beyond the declared size is the file's audio data.
MaxFrames == 2
MaxCut == 1
TagSizes == {0, 11, 22}
TagHeaderBytes(flags, size) == <<73, 68, 51, 3, 0, flags, 0, 0, 0, size>>
ExtSix == <<0, 0, 0, 6, 0, 0, 0, 0, 0, 0>>
ExtTen == <<0, 0, 0, 10, 0, 0, 0, 0, 0, 0, 1, 2, 3, 4>>
TIT2 == <<84, 73, 84, 50>>
FrameInputs ==
    { TIT2 \o <<0, 0, 0, 0, 0, 0>>,
      TIT2 \o <<0, 0, 0, 1, 0, 0, 65>>,
      TIT2 \o <<0, 0, 0, 2, 0, 0, 66, 67>>,
      TIT2 \o <<0, 0, 1, 0, 0, 0, 68>> }

RECURSIVE Concat(_)
Concat(ss) == IF ss = <<>> THEN <<>> ELSE Head(ss) \o Concat(Tail(ss))

TagInputs ==
    { TagHeaderBytes(e[1], sz) \o e[2] \o Concat(fs) :
        e \in {<<0, <<>> >>, <<64, ExtSix>>, <<64, ExtTen>>},
        sz \in TagSizes, fs \in SeqsUpTo(FrameInputs, MaxFrames) }

Init ==
    /\ src \in {Take(t, Len(t) - c) : t \in TagInputs, c \in 0..MaxCut}
    /\ pos = 0
    /\ last = NoCall
    /\ tag = NoTag

Next ==
    \/ FrameFromReader
    \/ FrameHeaderReadFrom
    \/ HeaderReadFrom
    \/ HeaderFromReader
    \/ ExtendedHeaderReadFrom
    \/ ExtendedHeaderFromReader

Spec == Init /\ [][Next]_vars

\* C5: once a tag header declaring size S has been parsed, no extended-header or
\* frame read that follows takes bytes beyond the S bytes after that header: a
\* read that would end past them is rejected.
C5_WithinTag ==
    ( /\ tag.parsed
      /\ last.op \in ExtParsers \cup {"ID3::Frame::from_reader", "FrameHeader::read_from"}
      /\ last.status = "Ok" )
    => last.pos - tag.end <= tag.size

\* C6: Frame::from_reader takes 10 header bytes (id, big-endian size, flags) and
\* then exactly `size` body bytes: it fails with a short-read error when fewer
\* than 10 bytes, or fewer than `size` bytes after them, are left, and otherwise
\* returns the frame whose data is the `size` bytes after the header.
C6_FrameBody ==
    /\ last.op = "ID3::Frame::from_reader" =>
          LET avail == Len(src) - last.at
              size == Declared(last.at + 4)
          IN  IF avail < 10 \/ avail - 10 < size
              THEN last.status = "UnexpectedEof"
              ELSE /\ last.status = "Ok"
                   /\ last.val.id = SubSeq(src, last.at + 1, last.at + 4)
                   /\ last.val.size = SubSeq(src, last.at + 5, last.at + 8)
                   /\ last.val.flags = SubSeq(src, last.at + 9, last.at + 10)
                   /\ last.val.data = SubSeq(src, last.at + 11, last.at + 10 + size)
                   /\ Len(last.val.data) = size
                   /\ Frame_size(last.val) = size
                   /\ last.pos = last.at + 10 + size
    /\ last.op = "FrameHeader::read_from" =>
          IF Len(src) - last.at < 10
          THEN last.status = "NotEnoughBytes"
          ELSE /\ last.status = "Ok"
               /\ last.val.frame_id = SubSeq(src, last.at + 1, last.at + 4)
               /\ last.val.flags = SubSeq(src, last.at + 9, last.at + 10)
               /\ FrameHeader_size(last.val) = Declared(last.at + 4)
               /\ last.pos = last.at + 10

\* C6 witness: past the tag header, a frame declaring 2 body bytes was returned
\* with exactly those 2 bytes, the source holding further bytes after them
C6_Witness ==
    /\ last.op = "ID3::Frame::from_reader"
    /\ last.at >= 10
    /\ last.status = "Ok"
    /\ Declared(last.at + 4) = 2
    /\ last.val.data = <<66, 67>>
    /\ Len(src) > last.pos

----------------------------------------------------------------------------
(* Text decoding (src/ID3.rs)                                              *)

\* a faulty variant: it takes the two byte-order marks the other way round
utf16_normal_order_swapped(bom) ==
    IF bom = 65279 THEN Some(TRUE)
    ELSE IF bom = 65534 THEN Some(FALSE)
    ELSE None

\* utf16_from_bytes, the byte order chosen from the mark: None stands for the
\* early return of an empty string
utf16_normal_order(bom) ==
    IF bom = 65534 THEN Some(TRUE)
    ELSE IF bom = 65279 THEN Some(FALSE)
    ELSE None

\* String::from_utf16_lossy(&[u]) of one code unit: an unpaired surrogate
\* becomes U+FFFD
from_utf16_lossy(u) == IF u >= 55296 /\ u <= 57343 THEN 65533 ELSE u

\* bytes[i] + bytes[i+1] on u8: above 255 the sum panics in a build with overflow
\* checks and wraps in one without
u8_add(a, b, overflow_checks) ==
    IF a + b <= 255 THEN [panic |-> FALSE, val |-> a + b]
    ELSE IF overflow_checks THEN [panic |-> TRUE, val |-> 0]
    ELSE [panic |-> FALSE, val |-> (a + b) % 256]

\* utf16_from_bytes, the loop over i in (2..bytes.len()).step_by(2)
RECURSIVE utf16_loop(_, _, _, _, _)
utf16_loop(bytes, i, normal_order, string, overflow_checks) ==
    IF i >= Len(bytes) THEN [status |-> "Ok", val |-> string]
    ELSE IF i + 1 >= Len(bytes) THEN [status |-> "Panic"]      \* bytes[i+1] out of bounds
    ELSE LET sum == u8_add(bytes[i + 1], bytes[i + 2], overflow_checks)
         IN  IF sum.panic THEN [status |-> "Panic"]
             ELSE IF sum.val = 0 THEN [status |-> "Ok", val |-> string]
             ELSE LET first == IF ~normal_order THEN bytes[i + 1] ELSE bytes[i + 2]
                      second == IF ~normal_order THEN bytes[i + 2] ELSE bytes[i + 1]
                      utf_val == Shl16(first, 8) + second
                  IN  utf16_loop(bytes, i + 2, normal_order,
                                 Append(string, from_utf16_lossy(utf_val)),
                                 overflow_checks)

\* utf16_from_bytes: the string as its sequence of code points
utf16_from_bytes(bytes, overflow_checks) ==
    IF Len(bytes) < 2 THEN [status |-> "Panic"]                \* bytes[0], bytes[1]
    ELSE LET bom == Shl16(bytes[1], 8) + bytes[2]
             normal_order == utf16_normal_order(bom)
         IN  IF ~normal_order.some THEN [status |-> "Ok", val |-> <<>>]
             ELSE utf16_loop(bytes, 2, normal_order.val, <<>>, overflow_checks)

\* ascii_from_bytes
RECURSIVE ascii_from_bytes(_)
ascii_from_bytes(bytes) ==
    IF bytes = <<>> \/ Head(bytes) = 0 THEN <<>>
    ELSE <<Head(bytes)>> \o ascii_from_bytes(Tail(bytes))

\* a faulty variant: it ends the text at the first zero byte, as ascii_from_bytes does
RECURSIVE string_from_bytes_loop_terminated(_, _)
string_from_bytes_loop_terminated(bytes, string) ==
    IF bytes = <<>> THEN Some(string)
    ELSE IF Head(bytes) >= 128 THEN None
    ELSE IF Head(bytes) = 0 THEN Some(string)
    ELSE string_from_bytes_loop_terminated(Tail(bytes), Append(string, Head(bytes)))

\* string_from_bytes
RECURSIVE string_from_bytes_loop(_, _)
string_from_bytes_loop(bytes, string) ==
    IF bytes = <<>> THEN Some(string)
    ELSE IF Head(bytes) >= 128 THEN None                       \* !byte.is_ascii()
    ELSE string_from_bytes_loop(Tail(bytes), Append(string, Head(bytes)))

string_from_bytes(bytes) == string_from_bytes_loop(bytes, <<>>)

\* utf16_from_bytes(&bytes), in a build with or without overflow checks
Utf16FromBytes ==
    /\ \E overflow_checks \in BOOLEAN :
          last' = [op |-> "utf16_from_bytes", overflow_checks |-> overflow_checks]
                     @@ utf16_from_bytes(src, overflow_checks)
    /\ UNCHANGED <<src, pos, tag>>

AsciiFromBytes ==
    /\ last' = [op |-> "ascii_from_bytes", status |-> "Ok", val |-> ascii_from_bytes(src)]
    /\ UNCHANGED <<src, pos, tag>>

StringFromBytes ==
    /\ last' = [op |-> "string_from_bytes", status |-> "Ok", val |-> string_from_bytes(src)]
    /\ UNCHANGED <<src, pos, tag>>

\* Inputs of the text decoders: either byte-order mark or none, then up to
\* MaxTextLen bytes; and slices too short to hold a mark
MaxTextLen == 4
Boms == {<<255, 254>>, <<254, 255>>, <<255, 255>>, <<65, 0>>}
TextBytes == {0, 1, 65, 128, 216, 255}

TextInit ==
    /\ src \in {b \o t : b \in Boms, t \in SeqsUpTo(TextBytes, MaxTextLen)}
                  \cup SeqsUpTo(TextBytes, 1)
    /\ pos = 0
    /\ last = NoCall
    /\ tag = NoTag

TextNext ==
    \/ Utf16FromBytes
    \/ AsciiFromBytes
    \/ StringFromBytes

SpecText == TextInit /\ [][TextNext]_vars

HasBom(s) == Len(s) >= 2 /\ <<s[1], s[2]>> \in {<<255, 254>>, <<254, 255>>}

\* the pairs after the mark, up to the first whose two bytes are both zero
RECURSIVE PairsBeforeZero(_)
PairsBeforeZero(s) ==
    IF Len(s) < 2 \/ (s[1] = 0 /\ s[2] = 0) THEN 0
    ELSE 1 + PairsBeforeZero(Drop(s, 2))

\* the leading pairs whose two bytes add up to something in 1..255
RECURSIVE PlainPairs(_)
PlainPairs(s) ==
    IF Len(s) < 2 \/ s[1] + s[2] = 0 \/ s[1] + s[2] > 255 THEN 0
    ELSE 1 + PlainPairs(Drop(s, 2))

\* C9: on a marked sequence of whole pairs, utf16_from_bytes returns one code
\* unit for every pair before the first pair whose two bytes are both zero: no
\* other pair, whatever its bytes add up to, ends the decoding.
C9_StopsAtZeroPairOnly ==
    (last.op = "utf16_from_bytes" /\ HasBom(src) /\ Len(src) % 2 = 0) =>
        /\ last.status = "Ok"
        /\ Len(last.val) = PairsBeforeZero(Drop(src, 2))

\* C10: the byte order comes from the first two bytes alone: after FF FE the
\* k-th character returned is the unit b[i+1]*256 + b[i] of the k-th pair, after
\* FE FF it is b[i]*256 + b[i+1], and after anything else the string is empty.
C10_ByteOrder ==
    (last.op = "utf16_from_bytes" /\ Len(src) >= 2 /\ last.status = "Ok") =>
        IF <<src[1], src[2]>> = <<255, 254>>
        THEN /\ Len(last.val) >= PlainPairs(Drop(src, 2))
             /\ \A k \in 1..Len(last.val) :
                   last.val[k] = from_utf16_lossy(src[2 * k + 2] * 256 + src[2 * k + 1])
        ELSE IF <<src[1], src[2]>> = <<254, 255>>
        THEN /\ Len(last.val) >= PlainPairs(Drop(src, 2))
             /\ \A k \in 1..Len(last.val) :
                   last.val[k] = from_utf16_lossy(src[2 * k + 1] * 256 + src[2 * k + 2])
        ELSE last.val = <<>>

\* C10 witness: after FF FE the pairs (0x41, 0x00) and (0x01, 0xD8) were
\* returned as U+0041 and, for the lone surrogate 0xD801, U+FFFD
C10_Witness ==
    /\ last.op = "utf16_from_bytes"
    /\ src = <<255, 254, 65, 0, 1, 216>>
    /\ last.status = "Ok"
    /\ last.val = <<65, 65533>>

\* the bytes before the first zero byte
RECURSIVE BeforeZero(_)
BeforeZero(s) ==
    IF s = <<>> \/ s[1] = 0 THEN <<>> ELSE <<s[1]>> \o BeforeZero(Tail(s))

AllAscii(s) == \A i \in 1..Len(s) : s[i] < 128
HasZero(s) == \E i \in 1..Len(s) : s[i] = 0

\* C11 as stated: string_from_bytes returns None iff some byte is >= 0x80, and
\* otherwise Some(t) with t the text ascii_from_bytes returns: the bytes before
\* the first zero byte, the zero byte and all after it left out.
C11_AsStated ==
    last.op = "string_from_bytes" =>
        /\ ~last.val.some <=> ~AllAscii(src)
        /\ last.val.some =>
              /\ last.val.val = ascii_from_bytes(src)
              /\ last.val.val = BeforeZero(src)

\* C11 amended: string_from_bytes returns None iff some byte is >= 0x80, and
\* otherwise Some(t) with t every byte of the input as one character, zero bytes
\* and what follows them included; t is the text ascii_from_bytes returns (the
\* bytes before the first zero byte) exactly when the input holds no zero byte.
C11_Amended ==
    /\ last.op = "string_from_bytes" =>
          /\ ~last.val.some <=> ~AllAscii(src)
          /\ last.val.some =>
                /\ last.val.val = src
                /\ last.val.val = ascii_from_bytes(src) <=> ~HasZero(src)
    /\ last.op = "ascii_from_bytes" => last.val = BeforeZero(src)

\* C11 witness: ASCII bytes with a zero byte in the middle came back whole
C11_Witness ==
    /\ last.op = "string_from_bytes"
    /\ src = <<65, 0, 65>>
    /\ last.val.some
    /\ last.val.val = <<65, 0, 65>>

ID3ExtParsers == {"ID3::ExtendedHeader::from_reader", "ID3::ExtendedHeader::from_bytes"}

\* C12: for every declared extended-header size, values below 6 included, and
\* every amount of input, ExtendedHeader::from_reader and ::from_bytes end either
\* in a header whose flags and padding_size are the 6 bytes right after the size
\* field, or in a typed failure (an error / None); they never abort on an index
\* beyond the bytes read.
C12_NoAbort ==
    last.op \in ID3ExtParsers =>
        /\ last.status \in {"Ok", "UnexpectedEof", "None"}
        /\ last.status = "Ok" =>
              /\ Len(src) >= last.at + 10
              /\ last.val.flags = SubSeq(src, last.at + 5, last.at + 6)
              /\ last.val.padding_size = SubSeq(src, last.at + 7, last.at + 10)

LibParsers == {"Header::read_from", "FrameHeader::read_from", "ExtendedHeader::read_from"}

\* the bytes the structure at byte `at` of the source is made of, by the parser
\* that reads it: 10, or 14 for an extended header carrying a CRC
OwnBytes(op, at) ==
    IF op = "ExtendedHeader::read_from" /\ Len(src) - at >= 4 /\ src[at + 4] = 10
    THEN 14 ELSE 10

\* C13: a successful Header::read_from or FrameHeader::read_from advances the
\* source by exactly 10 bytes, ExtendedHeader::read_from by 10 bytes without CRC
\* and 14 with it; the source's bytes stay as they were, bytes after the
\* structure change nothing (the parse does not fail for lack of bytes once its
\* own bytes are there, and returns them), and the next parse starts at the
\* first byte after the structure.
C13_ConsumesOwnBytes ==
    [][ last'.op \in LibParsers =>
          LET n == OwnBytes(last'.op, pos)
          IN  /\ src' = src
              /\ last'.at = pos
              /\ Len(src) - pos >= n => last'.status \notin {"NotEnoughBytes", "Panic"}
              /\ last'.status = "Ok" =>
                    /\ pos' = pos + n
                    /\ last'.pos = pos'
                    /\ Len(src) >= pos'
                    /\ last'.op = "Header::read_from" =>
                          /\ last'.val.identifier = SubSeq(src, pos + 1, pos + 3)
                          /\ last'.val.version = SubSeq(src, pos + 4, pos + 5)
                          /\ last'.val.flags = src[pos + 6]
                    /\ last'.op = "FrameHeader::read_from" =>
                          /\ last'.val.frame_id = SubSeq(src, pos + 1, pos + 4)
                          /\ last'.val.size = SubSeq(src, pos + 5, pos + 8)
                          /\ last'.val.flags = SubSeq(src, pos + 9, pos + 10)
                    /\ last'.op = "ExtendedHeader::read_from" =>
                          /\ last'.val.size = SubSeq(src, pos + 1, pos + 4)
                          /\ last'.val.flags = SubSeq(src, pos + 5, pos + 6)
                          /\ last'.val.padding_size = SubSeq(src, pos + 7, pos + 10)
                          /\ last'.val.crc.some <=> n = 14
                          /\ last'.val.crc.some =>
                                last'.val.crc.val = SubSeq(src, pos + 11, pos + 14)
      ]_vars

\* C13 witness: after the tag header, an extended header with its CRC was parsed
\* from bytes 10..23 of a source that holds a frame after it
C13_Witness ==
    /\ last.op = "ExtendedHeader::read_from"
    /\ last.status = "Ok"
    /\ last.at = 10
    /\ last.val.crc = Some(<<1, 2, 3, 4>>)
    /\ pos = 24
    /\ Len(src) > 24

----------------------------------------------------------------------------
(* Frame ids                                                               *)

\* a continuation byte of UTF-8
utf8_cont(b) == b >= 128 /\ b <= 191

\* String::from_utf8(vec): the characters (code points) the bytes encode, or an
\* error when the bytes are not well-formed UTF-8 (a stray or missing
\* continuation byte, an overlong form, a surrogate, a value above 10FFFF)
RECURSIVE from_utf8_loop(_, _)
from_utf8_loop(bytes, string) ==
    IF bytes = <<>> THEN [status |-> "Ok", val |-> string]
    ELSE LET first == bytes[1]
             w == IF first < 128 THEN 1
                  ELSE IF first >= 194 /\ first <= 223 THEN 2
                  ELSE IF first >= 224 /\ first <= 239 THEN 3
                  ELSE IF first >= 240 /\ first <= 244 THEN 4
                  ELSE 0
         IN  IF w = 0 \/ Len(bytes) < w THEN [status |-> "Utf8Error"]
             ELSE IF w = 1
             THEN from_utf8_loop(Tail(bytes), Append(string, first))
             ELSE LET second_ok ==
                          CASE first = 224 -> bytes[2] >= 160 /\ bytes[2] <= 191
                            [] first = 237 -> bytes[2] >= 128 /\ bytes[2] <= 159
                            [] first = 240 -> bytes[2] >= 144 /\ bytes[2] <= 191
                            [] first = 244 -> bytes[2] >= 128 /\ bytes[2] <= 143
                            [] OTHER -> utf8_cont(bytes[2])
                      init == CASE w = 2 -> first - 192
                                [] w = 3 -> first - 224
                                [] OTHER -> first - 240
                      ch == IF w = 2 THEN init * 64 + (bytes[2] - 128)
                            ELSE IF w = 3
                            THEN init * 4096 + (bytes[2] - 128) * 64 + (bytes[3] - 128)
                            ELSE init * 262144 + (bytes[2] - 128) * 4096
                                   + (bytes[3] - 128) * 64 + (bytes[4] - 128)
                  IN  IF second_ok /\ \A i \in 3..w : utf8_cont(bytes[i])
                      THEN from_utf8_loop(Drop(bytes, w), Append(string, ch))
                      ELSE [status |-> "Utf8Error"]

from_utf8(bytes) == from_utf8_loop(bytes, <<>>)

\* FrameHeader::id (src/lib.rs): String::from_utf8(frame_id).unwrap()
FrameHeader_id(h) ==
    LET r == from_utf8(h.frame_id)
    IN  IF r.status = "Ok"
        THEN [status |-> "Ok", val |-> r.val]
        ELSE [status |-> "Panic"]                 \* .unwrap() on Err

\* Frame::id (src/ID3.rs): string_from_bytes(&self.id).unwrap()
Frame_id(f) ==
    LET r == string_from_bytes(f.id)
    IN  IF r.some
        THEN [status |-> "Ok", val |-> r.val]
        ELSE [status |-> "Panic"]                 \* .unwrap() on None

\* header.id() on the frame header the last FrameHeader::read_from returned
FrameHeaderId ==
    /\ last.op = "FrameHeader::read_from"
    /\ last.status = "Ok"
    /\ last' = [op |-> "FrameHeader::id", at |-> last.at, pos |-> pos,
                id |-> last.val.frame_id] @@ FrameHeader_id(last.val)
    /\ UNCHANGED <<src, pos, tag>>

\* frame.id() on the frame the last Frame::from_reader returned
FrameId ==
    /\ last.op = "ID3::Frame::from_reader"
    /\ last.status = "Ok"
    /\ last' = [op |-> "ID3::Frame::id", at |-> last.at, pos |-> pos,
                id |-> last.val.id] @@ Frame_id(last.val)
    /\ UNCHANGED <<src, pos, tag>>

\* Inputs: one frame whose id is any 4 bytes out of IdBytes (ASCII, a zero, a
\* lone continuation byte, the two bytes of U+00E9, 0xFF) or one of a few ids
\* with a longer UTF-8 form or a surrogate, declaring up to MaxIdBody body
\* bytes; the last byte may be missing.
MaxIdBody == 1
IdBytes == {0, 84, 169, 195, 255}
IdInputs ==
    [1..4 -> IdBytes]
      \cup {TIT2, <<255, 73, 84, 50>>, <<226, 130, 172, 84>>, <<240, 159, 152, 128>>,
            <<237, 160, 128, 84>>, <<224, 128, 128, 84>>}

FrameIdInit ==
    /\ src \in { Take(id \o <<0, 0, 0, k, 0, 0>> \o [i \in 1..k |-> 65], 10 + k - c) :
                   id \in IdInputs, k \in 0..MaxIdBody, c \in 0..1 }
    /\ pos = 0
    /\ last = NoCall
    /\ tag = NoTag

FrameIdNext ==
    \/ FrameHeaderId
    \/ FrameId
    \/ FrameHeaderReadFrom
    \/ FrameFromReader

SpecFrameId == FrameIdInit /\ [][FrameIdNext]_vars

\* C14: FrameHeader::read_from succeeds on every 10 bytes, whatever the first 4
\* are, and stores them unchanged; FrameHeader::id and Frame::id return the
\* 4-character string of those bytes when all 4 are ASCII and, for every other
\* id, still return to the caller: they do not abort.
C14_IdNeverAborts ==
    /\ (last.op = "FrameHeader::read_from" /\ Len(src) - last.at >= 10) =>
          /\ last.status = "Ok"
          /\ last.val.frame_id = SubSeq(src, last.at + 1, last.at + 4)
    /\ last.op \in {"FrameHeader::id", "ID3::Frame::id"} =>
          /\ last.id = SubSeq(src, last.at + 1, last.at + 4)
          /\ last.status # "Panic"
          /\ AllAscii(last.id) => (last.status = "Ok" /\ last.val = last.id)

====
